---- MODULE Spec2Model ----
(***************************************************************************)
(* Variant-generation orchestrator of src/server/services/model.py         *)
(* (generate_four_edits_from_two_bytes) and its single-image twin          *)
(* src/backend.py (generate_four_edits_from_bytes): four variant workers   *)
(* on a bounded thread pool, each with a 4-attempt retry loop and          *)
(* exponential backoff, collected by the calling thread.                   *)
(***************************************************************************)
EXTENDS Integers, Sequences, FiniteSets, TLC

\* ---------------------------------------------------------------- bounds
\* widest pool explored: max_workers is drawn from 1..MaxWidth
MaxWidth == 4
\* widest pool explored under fairness: max_workers is drawn from 1..LiveWidth
LiveWidth == 2
\* decoder inputs: responses of up to MaxCands candidates of up to MaxParts
\* parts each
MaxCands == 2
MaxParts == 2
\* HTTP requests served in one run of the route layer, possibly overlapping
MaxRequests == 2
\* longest directive handed to _build_prompt, in symbols
MaxDirective == 3

\* ------------------------------------------------------ program constants
\* range(1, 5) of the submit loop: variants 1..4
NumVariants == 4
Variants == 1..NumVariants
\* for attempt in range(1, 5)
MaxAttempts == 4
\* backoff = 1.0
InitialBackoff == 1
\* min(backoff * 2, 8.0)
BackoffCap == 8

VARIABLES
    boxed_ok,     \* Image.open accepts boxed_bytes
    base_ok,      \* Image.open accepts base_bytes
    max_workers,  \* width of the ThreadPoolExecutor
    fate,         \* environment: how the backend treats each variant
    accepts,      \* keywords client.files.download accepts
    main,         \* position of the calling thread
    error,        \* exception generate raised, "none" if none
    ret,          \* the returned list
    saved,        \* the list `saved`, in collection order
    collected,    \* futures as_completed has already yielded
    warned,       \* [WARN] lines logged by the collector
    pc,           \* position of each variant worker
    attempt,      \* loop variable `attempt` of each worker
    backoff,      \* local `backoff` of each worker
    last_err,     \* local `last_err` of each worker
    exc,          \* exception a worker's future holds
    disk,         \* what is at out_path of each variant
    calls,        \* history: generate_content calls made per variant
    sleeps,       \* history: durations of the sleeps each worker finished
    cause,        \* history: attempt and kind of each worker's latest failure
    resp,         \* decoder run: the response handed to the decoder
    dl,           \* decoder run: what files.download does per keyword
    dec,          \* decoder run: what _extract_image_from_response gave
    after,        \* decoder run: what the worker does with that result
    global_directive, \* prompt run: argument global_str of _build_prompt
    variant_idx,  \* prompt run: argument variant_idx of _build_prompt
    prompt,       \* prompt run: the string _build_prompt returned
    filename_hint, \* probe run: argument filename_hint
    photo_format, \* probe run: im.format of photo_bytes
    probed,       \* probe run: what _infer_mime_and_suffix_from_bytes gave
    images,       \* table images: images[id] is the row of id
    files,        \* writes made to storage: the path and the image written
    convs,        \* table conversations: convs[cid].current is current_image_id
    messages,     \* table messages, in id order
    reqs          \* the HTTP requests: handler, position and locals

vars == <<boxed_ok, base_ok, max_workers, fate, accepts, main, error, ret,
          saved, collected, warned, pc, attempt, backoff, last_err, exc,
          disk, calls, sleeps, cause, resp, dl, dec, after,
          global_directive, variant_idx, prompt,
          filename_hint, photo_format, probed,
          images, files, convs, messages, reqs>>

decVars   == <<resp, dl, dec, after>>
promptVars == <<global_directive, variant_idx, prompt>>
probeVars == <<filename_hint, photo_format, probed>>
routeVars == <<images, files, convs, messages, reqs>>
genEnv    == <<boxed_ok, base_ok, max_workers, fate, accepts>>
envVars   == <<genEnv, decVars, routeVars, promptVars, probeVars>>
workVars == <<pc, attempt, backoff, last_err, exc, disk, calls, sleeps, cause>>
mainVars == <<main, error, ret, saved, collected, warned>>

\* ------------------------------------------------------- small utilities
Min(a, b) == IF a < b THEN a ELSE b

RECURSIVE SumSeq(_)
SumSeq(s) == IF s = <<>> THEN 0 ELSE Head(s) + SumSeq(Tail(s))

RECURSIVE Pow2(_)
Pow2(n) == IF n = 0 THEN 1 ELSE 2 * Pow2(n - 1)

SeqSet(s) == {s[k] : k \in 1..Len(s)}

\* ------------------------------------------------------------ file names
\* run_stem = f"{boxed_stem}_{uuid}" is the same for the four variants; a
\* path is the sequence of the character codes of its file name.
RunStem == <<98, 111, 120, 101, 100, 95, 55>>       \* "boxed_7"
Suffix  == <<46, 112, 110, 103>>                    \* ".png"

\* str(i) for a non-negative integer, as character codes
RECURSIVE Digits(_)
Digits(n) == IF n < 10 THEN <<48 + n>> ELSE Digits(n \div 10) \o <<48 + (n % 10)>>

\* out_path = outputs_dir / f"{run_stem}_v{i}{boxed_suffix}"
out_path(i) == RunStem \o <<95, 118>> \o Digits(i) \o Suffix

\* Path.__lt__ : comparison of the name strings, code by code
RECURSIVE LexLessFrom(_, _, _)
LexLessFrom(a, b, k) ==
    IF k > Len(b) THEN FALSE
    ELSE IF k > Len(a) THEN TRUE
    ELSE IF a[k] < b[k] THEN TRUE
    ELSE IF a[k] > b[k] THEN FALSE
    ELSE LexLessFrom(a, b, k + 1)

LexLess(a, b) == LexLessFrom(a, b, 1)

\* the position of s[k] in the stable ascending order of s
Rank(s, k) ==
    Cardinality({j \in 1..Len(s) :
        LexLess(s[j], s[k]) \/ (~LexLess(s[k], s[j]) /\ j < k)}) + 1

Unsorted(s) == s
\* sorted(saved)
Sorted(s) == [p \in 1..Len(s) |-> s[CHOOSE k \in 1..Len(s) : Rank(s, k) = p]]

\* --------------------------------------------------------------- decoder
\* A response is a sequence of candidates, a candidate the sequence of the
\* parts of its content.  A part is [inline, file]:
\*   inline = -1  inline_data is None      file = -1  file_data is None
\*   inline =  0  inline_data.data == b""  file =  0  file_data without uri
\*   inline >= 1  a payload                file >= 1  a file uri
NoneV == -1
TextPart      == [inline |-> NoneV, file |-> NoneV]
InlinePart(d) == [inline |-> d, file |-> NoneV]
FilePart(u)   == [inline |-> NoneV, file |-> u]

\* the bytes the remote file store holds for uri u
RemoteBytes(u) == 100 + u

Conventions == <<"name", "file">>
DownloadOutcomes == {"bytes", "TypeError", "Error"}

RECURSIVE TryPastAnyError(_, _, _)
TryPastAnyError(d, uri, k) ==
    IF k > Len(Conventions)
    THEN [status |-> "raise", err |-> "ConfigErr", data |-> NoneV, tried |-> k - 1]
    ELSE IF d[Conventions[k]] = "bytes"
    THEN [status |-> "ok", err |-> "none", data |-> RemoteBytes(uri), tried |-> k]
    ELSE TryPastAnyError(d, uri, k + 1)

\* _download_file_bytes: dl[kw] is what client.files.download(kw=uri) does
RECURSIVE TryDownload(_, _, _)
TryDownload(d, uri, k) ==
    IF k > Len(Conventions)
    THEN [status |-> "raise", err |-> "ConfigErr", data |-> NoneV, tried |-> k - 1]
    ELSE LET o == d[Conventions[k]] IN
         IF o = "bytes"
         THEN [status |-> "ok", err |-> "none", data |-> RemoteBytes(uri), tried |-> k]
         ELSE IF o = "TypeError"
         THEN TryDownload(d, uri, k + 1)
         ELSE [status |-> "raise", err |-> "FetchErr", data |-> NoneV, tried |-> k]

DownloadFileBytes(d, uri) == TryDownload(d, uri, 1)

\* the parts of all candidates in scan order (outer loop candidates, inner
\* loop parts)
RECURSIVE AllParts(_)
AllParts(rsp) ==
    IF rsp = <<>> THEN <<>> ELSE Head(rsp) \o AllParts(Tail(rsp))

\* first part with a truthy inline_data, 0 if there is none
RECURSIVE FirstInline(_, _)
FirstInline(ps, k) ==
    IF k > Len(ps) THEN 0
    ELSE IF ps[k].inline # NoneV THEN k
    ELSE FirstInline(ps, k + 1)

RECURSIVE LastFile(_, _)
LastFile(ps, k) ==
    IF k > Len(ps) THEN 0
    ELSE IF LastFile(ps, k + 1) # 0 THEN LastFile(ps, k + 1)
    ELSE IF ps[k].file >= 1 THEN k
    ELSE 0

\* first part with file_data and a truthy file_uri, 0 if there is none
RECURSIVE FirstFile(_, _)
FirstFile(ps, k) ==
    IF k > Len(ps) THEN 0
    ELSE IF ps[k].file >= 1 THEN k
    ELSE FirstFile(ps, k + 1)

\* the result of a decoder run on no image source at all
NoImageResult ==
    [status |-> "ok", err |-> "none", data |-> NoneV, fetched |-> <<>>, tried |-> 0]

RECURSIVE SinglePass(_, _, _)
SinglePass(ps, d, k) ==
    IF k > Len(ps) THEN NoImageResult
    ELSE IF ps[k].inline # NoneV
    THEN [NoImageResult EXCEPT !.data = ps[k].inline]
    ELSE IF ps[k].file >= 1
    THEN LET r == TryDownload(d, ps[k].file, 1) IN
         [status |-> r.status, err |-> r.err, data |-> r.data,
          fetched |-> <<ps[k].file>>, tried |-> r.tried]
    ELSE SinglePass(ps, d, k + 1)

ExtractSinglePass(rsp, d) == SinglePass(AllParts(rsp), d, 1)

\* _extract_image_from_response
ExtractImage(rsp, d) ==
    LET ps == AllParts(rsp)
        ki == FirstInline(ps, 1)
        kf == FirstFile(ps, 1)
    IN  IF ki # 0
        THEN [status |-> "ok", err |-> "none", data |-> ps[ki].inline,
              fetched |-> <<>>, tried |-> 0]
        ELSE IF kf # 0
        THEN LET r == DownloadFileBytes(d, ps[kf].file) IN
             [status |-> r.status, err |-> r.err, data |-> r.data,
              fetched |-> <<ps[kf].file>>, tried |-> r.tried]
        ELSE [status |-> "ok", err |-> "none", data |-> NoneV,
              fetched |-> <<>>, tried |-> 0]

NoneOnly(data) == data = NoneV
\* `if not img_bytes`
NoBytes(data) == data = NoneV \/ data = 0

\* ----------------------------------------------------------- environment
Fates == {"ok", "noimage", "any"}

\* responses the backend gives a worker, by the variant's fate
OkResponse      == << <<InlinePart(1)>> >>
NoImageResponse == << <<TextPart>> >>
WorkerResponses ==
    { OkResponse, NoImageResponse, <<>>,
      << <<FilePart(1)>> >>,
      << <<FilePart(1)>>, <<InlinePart(2)>> >>,
      << <<InlinePart(0), FilePart(1)>> >> }

ResponsesFor(f) ==
    IF f = "ok" THEN {OkResponse}
    ELSE IF f = "noimage" THEN {NoImageResponse}
    ELSE WorkerResponses

\* what the download does per keyword: a keyword the client does not accept
\* is a TypeError, an accepted one returns the bytes or fails in transit
DownloadsFor(acc, f) ==
    {d \in [SeqSet(Conventions) -> DownloadOutcomes] :
        \A kw \in SeqSet(Conventions) :
            /\ (kw \notin acc) <=> (d[kw] = "TypeError")
            /\ (f # "any") => (d[kw] # "Error")}

\* The backend's behaviour per run: every variant either always succeeds or
\* always reports "no image", or the first variant is unconstrained (any
\* failure at any step of any attempt) while its siblings succeed.
Scenarios ==
    {f \in [Variants -> Fates] :
        \/ \A i \in Variants : f[i] \in {"ok", "noimage"}
        \/ f[1] = "any" /\ \A j \in Variants \ {1} : f[j] = "ok"}

ErrorKinds == {"CallErr", "NoImage", "FetchErr", "ConfigErr", "SaveErr"}

\* ------------------------------------------------------------------ Init
\* no decoder run in progress
DecoderIdle ==
    /\ resp = <<>>
    /\ dl = [kw \in SeqSet(Conventions) |-> "bytes"]
    /\ dec = [NoImageResult EXCEPT !.status = "idle"]
    /\ after = [next |-> "idle", err |-> "none"]

\* no call of _build_prompt in progress
PromptIdle ==
    /\ global_directive = [given |-> FALSE, text |-> <<>>]
    /\ variant_idx = 1
    /\ prompt = <<>>

\* no call of _infer_mime_and_suffix_from_bytes in progress
ProbeIdle ==
    /\ filename_hint = [given |-> FALSE, ext |-> ""]
    /\ photo_format = "PNG"
    /\ probed = [status |-> "idle", mime |-> "", suffix |-> ""]

\* generate has not been entered
GenerateIdle ==
    /\ main = "idle"
    /\ error = "none"
    /\ ret = <<>>
    /\ saved = <<>>
    /\ collected = {}
    /\ warned = {}
    /\ pc = [i \in Variants |-> "NONE"]
    /\ attempt = [i \in Variants |-> 0]
    /\ backoff = [i \in Variants |-> 0]
    /\ last_err = [i \in Variants |-> "none"]
    /\ exc = [i \in Variants |-> [variant |-> 0, last |-> "none"]]
    /\ disk = [i \in Variants |-> "absent"]
    /\ calls = [i \in Variants |-> 0]
    /\ sleeps = [i \in Variants |-> <<>>]
    /\ cause = [i \in Variants |-> [at |-> 0, kind |-> "none"]]

Requests == 1..MaxRequests

\* the locals of a request that has not arrived yet
NewRequest ==
    [op |-> "none", pc |-> "new", cid |-> 0, raw |-> "none", sel |-> 0,
     edit_index |-> 0, orig_id |-> 0, mod_id |-> 0, cur_id |-> 0,
     paths |-> 0, todo |-> 0, stores |-> 0, outputs |-> <<>>, code |-> 0]

\* init_db on an empty store, no request yet
RoutesIdle ==
    /\ images = <<>>
    /\ files = {}
    /\ convs = <<>>
    /\ messages = <<>>
    /\ reqs = [r \in Requests |-> NewRequest]

Init ==
    /\ RoutesIdle
    /\ PromptIdle
    /\ ProbeIdle
    /\ boxed_ok \in BOOLEAN
    /\ base_ok \in BOOLEAN
    /\ max_workers \in 1..MaxWidth
    /\ fate \in Scenarios
    /\ accepts \in SUBSET SeqSet(Conventions)
    /\ ((\A i \in Variants : fate[i] # "any") => accepts = {"name"})
    /\ DecoderIdle
    /\ main = "idle"
    /\ error = "none"
    /\ ret = <<>>
    /\ saved = <<>>
    /\ collected = {}
    /\ warned = {}
    /\ pc = [i \in Variants |-> "NONE"]
    /\ attempt = [i \in Variants |-> 0]
    /\ backoff = [i \in Variants |-> 0]
    /\ last_err = [i \in Variants |-> "none"]
    /\ exc = [i \in Variants |-> [variant |-> 0, last |-> "none"]]
    /\ disk = [i \in Variants |-> "absent"]
    /\ calls = [i \in Variants |-> 0]
    /\ sleeps = [i \in Variants |-> <<>>]
    /\ cause = [i \in Variants |-> [at |-> 0, kind |-> "none"]]

\* ---------------------------------------------------------- orchestrator
ProbeBoxedOnly(bx, bs) == bx
\* the two _infer_mime_and_suffix_from_bytes calls: Image.open raises on
\* bytes that are not an image
ProbeOk(bx, bs) == bx /\ bs

\* lines 142-205: probe both inputs, then submit the four variants
Generate ==
    /\ main = "idle"
    /\ IF ProbeOk(boxed_ok, base_ok)
       THEN /\ main' = "collecting"
            /\ pc' = [i \in Variants |-> "PENDING"]
            /\ error' = error
       ELSE /\ main' = "raised"
            /\ error' = "DecodeError"
            /\ pc' = pc
    /\ UNCHANGED <<envVars, ret, saved, collected, warned, attempt, backoff,
                   last_err, exc, disk, calls, sleeps, cause>>

AppendAlways(s, i, st) == Append(s, out_path(i))
\* saved.append(fut.result()) inside try/except
Collected(s, i, st) == IF st = "DONE" THEN Append(s, out_path(i)) ELSE s

PropagateVariantError == "raised"
\* the except branch of the collection loop logs and goes on
AfterVariantError == "collecting"

NotLogged(w, e) == w
\* log(f"[{run_stem}] [WARN] ...: {e}")
Logged(w, e) == w \cup {e}

\* one iteration of `for fut in as_completed(futures)`
Collect(i) ==
    /\ main = "collecting"
    /\ pc[i] \in {"DONE", "FAILED"}
    /\ i \notin collected
    /\ collected' = collected \cup {i}
    /\ saved' = Collected(saved, i, pc[i])
    /\ IF pc[i] = "FAILED"
       THEN /\ warned' = Logged(warned, exc[i])
            /\ main' = AfterVariantError
            /\ error' = IF AfterVariantError = "raised" THEN "VariantError" ELSE error
       ELSE UNCHANGED <<warned, main, error>>
    /\ UNCHANGED <<envVars, ret, pc, attempt, backoff, last_err, exc, disk,
                   calls, sleeps, cause>>

NeverEmpty(s) == FALSE
\* `if not saved`
NoneSaved(s) == Len(s) = 0

QuorumCollected(c) == Cardinality(c) >= 2
\* the as_completed loop ends when every future has been yielded
AllCollected(c) == c = Variants

\* lines 212-217
Finish ==
    /\ main = "collecting"
    /\ AllCollected(collected)
    /\ IF NoneSaved(saved)
       THEN /\ main' = "raised"
            /\ error' = "AllVariantsFailed"
            /\ ret' = ret
       ELSE /\ main' = "returned"
            /\ ret' = Sorted(saved)
            /\ error' = error
    /\ UNCHANGED <<envVars, saved, collected, warned, pc, attempt, backoff,
                   last_err, exc, disk, calls, sleeps, cause>>

\* -------------------------------------------------------- variant worker
EverStarted(i) == pc[i] \notin {"NONE", "PENDING"}
\* worker i occupies a pool thread
Running(i) == pc[i] \in {"CALLING", "DECODING", "SAVING", "SLEEP"}
NumRunning == Cardinality({i \in Variants : Running(i)})

SlotFreeOffByOne(n, w) == n <= w
SlotFreeStrict(n, w) == n + 1 < w
\* a pool thread is idle or may still be created
SlotFree(n, w) == n < w

\* a pool thread takes the next work item off the FIFO queue and enters
\* _one_variant up to the first generate_content call
Start(i) ==
    /\ pc[i] = "PENDING"
    /\ \A j \in Variants : j < i => pc[j] # "PENDING"
    /\ SlotFree(NumRunning, max_workers)
    /\ pc' = [pc EXCEPT ![i] = "CALLING"]
    /\ attempt' = [attempt EXCEPT ![i] = 1]
    /\ backoff' = [backoff EXCEPT ![i] = InitialBackoff]
    /\ calls' = [calls EXCEPT ![i] = 1]
    /\ UNCHANGED <<envVars, mainVars, last_err, exc, disk, sleeps, cause>>

SaveErrIsFatal(e) == IF e = "SaveErr" THEN "FAILED" ELSE "SLEEP"
\* `except Exception as e`: every exception of the try block is handled
\* the same way, by the sleep
OnException(e) == "SLEEP"

\* the except branch up to the start of time.sleep(backoff)
Fail(i, e) ==
    /\ last_err' = [last_err EXCEPT ![i] = e]
    /\ pc' = [pc EXCEPT ![i] = OnException(e)]
    /\ exc' = IF OnException(e) = "FAILED"
              THEN [exc EXCEPT ![i] = [variant |-> i, last |-> e]]
              ELSE exc
    /\ cause' = [cause EXCEPT ![i] = [at |-> attempt[i], kind |-> e]]

\* generate_content returns a response
CallReturns(i) ==
    /\ pc[i] = "CALLING"
    /\ pc' = [pc EXCEPT ![i] = "DECODING"]
    /\ UNCHANGED <<envVars, mainVars, attempt, backoff, last_err, exc, disk,
                   calls, sleeps, cause>>

\* generate_content raises
CallRaises(i) ==
    /\ pc[i] = "CALLING"
    /\ fate[i] = "any"
    /\ Fail(i, "CallErr")
    /\ UNCHANGED <<envVars, mainVars, attempt, backoff, disk, calls, sleeps>>

\* _extract_image_from_response yields image bytes
DecodeImage(i) ==
    /\ pc[i] = "DECODING"
    /\ \E rsp \in ResponsesFor(fate[i]) : \E d \in DownloadsFor(accepts, fate[i]) :
          LET r == ExtractImage(rsp, d) IN
          r.status = "ok" /\ ~NoBytes(r.data)
    /\ pc' = [pc EXCEPT ![i] = "SAVING"]
    /\ UNCHANGED <<envVars, mainVars, attempt, backoff, last_err, exc, disk,
                   calls, sleeps, cause>>

\* _extract_image_from_response yields no bytes: RuntimeError("No image ...")
DecodeNoImage(i) ==
    /\ pc[i] = "DECODING"
    /\ \E rsp \in ResponsesFor(fate[i]) : \E d \in DownloadsFor(accepts, fate[i]) :
          LET r == ExtractImage(rsp, d) IN
          r.status = "ok" /\ NoBytes(r.data)
    /\ Fail(i, "NoImage")
    /\ UNCHANGED <<envVars, mainVars, attempt, backoff, disk, calls, sleeps>>

\* the secondary fetch inside _extract_image_from_response raises
DecodeRaises(i) ==
    /\ pc[i] = "DECODING"
    /\ \E rsp \in ResponsesFor(fate[i]) : \E d \in DownloadsFor(accepts, fate[i]) :
          LET r == ExtractImage(rsp, d) IN
          /\ r.status = "raise"
          /\ Fail(i, r.err)
    /\ UNCHANGED <<envVars, mainVars, attempt, backoff, disk, calls, sleeps>>

SaveAndAppend(i) ==
    /\ pc[i] = "SAVING"
    /\ pc' = [pc EXCEPT ![i] = "DONE"]
    /\ disk' = [disk EXCEPT ![i] = "complete"]
    /\ saved' = Append(saved, out_path(i))
    /\ UNCHANGED <<envVars, main, error, ret, collected, warned, attempt,
                   backoff, last_err, exc, calls, sleeps, cause>>
\* Image.open(...).save(out_path) succeeds; return out_path
Save(i) ==
    /\ pc[i] = "SAVING"
    /\ pc' = [pc EXCEPT ![i] = "DONE"]
    /\ disk' = [disk EXCEPT ![i] = "complete"]
    /\ UNCHANGED <<envVars, mainVars, attempt, backoff, last_err, exc, calls,
                   sleeps, cause>>

\* Image.open fails (nothing written) or save fails part-way
SaveRaises(i) ==
    /\ pc[i] = "SAVING"
    /\ fate[i] = "any"
    /\ \E d \in {disk[i], "partial"} : disk' = [disk EXCEPT ![i] = d]
    /\ Fail(i, "SaveErr")
    /\ UNCHANGED <<envVars, mainVars, attempt, backoff, calls, sleeps>>

LinearBackoff(b) == b + 1
\* backoff = min(backoff * 2, 8.0)
NextBackoff(b) == Min(b * 2, BackoffCap)

OneMoreAttempt == MaxAttempts + 1
EarlyGiveUp == MaxAttempts - 1
\* range(1, 5): the last value of `attempt`
LastAttempt == MaxAttempts

\* time.sleep(backoff) returns; the backoff doubles; the loop goes on to the
\* next attempt's call or, after the last one, raises
Wake(i) ==
    /\ pc[i] = "SLEEP"
    /\ sleeps' = [sleeps EXCEPT ![i] = Append(@, backoff[i])]
    /\ backoff' = [backoff EXCEPT ![i] = NextBackoff(@)]
    /\ IF attempt[i] < LastAttempt
       THEN /\ attempt' = [attempt EXCEPT ![i] = @ + 1]
            /\ pc' = [pc EXCEPT ![i] = "CALLING"]
            /\ calls' = [calls EXCEPT ![i] = @ + 1]
            /\ exc' = exc
       ELSE /\ pc' = [pc EXCEPT ![i] = "FAILED"]
            /\ exc' = [exc EXCEPT ![i] = [variant |-> i, last |-> last_err[i]]]
            /\ UNCHANGED <<attempt, calls>>
    /\ UNCHANGED <<envVars, mainVars, last_err, disk, cause>>

\* any step of worker i once it has started
WorkerStep(i) ==
    \/ CallReturns(i) \/ CallRaises(i)
    \/ DecodeImage(i) \/ DecodeNoImage(i) \/ DecodeRaises(i)
    \/ Save(i) \/ SaveRaises(i)
    \/ Wake(i)

Next ==
    \/ Generate
    \/ \E i \in Variants : Collect(i)
    \/ Finish
    \/ \E i \in Variants : Start(i)
    \/ \E i \in Variants : CallReturns(i)
    \/ \E i \in Variants : CallRaises(i)
    \/ \E i \in Variants : DecodeImage(i)
    \/ \E i \in Variants : DecodeNoImage(i)
    \/ \E i \in Variants : DecodeRaises(i)
    \/ \E i \in Variants : Save(i)
    \/ \E i \in Variants : SaveRaises(i)
    \/ \E i \in Variants : Wake(i)

Spec == Init /\ [][Next]_vars

TypeOK ==
    /\ main \in {"idle", "collecting", "returned", "raised"}
    /\ pc \in [Variants -> {"NONE", "PENDING", "CALLING", "DECODING", "SAVING",
                            "SLEEP", "DONE", "FAILED"}]
    /\ last_err \in [Variants -> ErrorKinds \cup {"none"}]

\* ------------------------------------------------ generate under fairness
\* the runs whose termination is checked: narrow pools, so that variants
\* wait in the queue, a client that accepts the first keyword, and a backend
\* that serves every variant, none, or fails the first one in any way
LiveScenarios ==
    { [i \in Variants |-> "ok"], [i \in Variants |-> "noimage"],
      [i \in Variants |-> IF i = 1 THEN "any" ELSE "ok"] }

InitLive ==
    /\ Init
    /\ max_workers \in 1..LiveWidth
    /\ accepts = {"name"}
    /\ fate \in LiveScenarios

\* every call, fetch, sleep and write returns, and every thread that can
\* take a step eventually takes one
SpecLive == InitLive /\ [][Next]_vars /\ WF_vars(Next)

\* ------------------------------------------------ decoder on its own
\* the shapes a part can have
PartKinds == {"text", "empty", "inline", "nouri", "file"}

\* the part of kind kd at position p of candidate c; payloads and uris are
\* numbered by position, so that different parts carry different data
MkPart(kd, c, p) ==
    LET id == c * 10 + p IN
    IF kd = "text" THEN TextPart
    ELSE IF kd = "empty" THEN InlinePart(0)
    ELSE IF kd = "inline" THEN InlinePart(id)
    ELSE IF kd = "nouri" THEN FilePart(0)
    ELSE FilePart(id)

CandShapes == UNION {[1..m -> PartKinds] : m \in 0..MaxParts}
RespShapes == UNION {[1..n -> CandShapes] : n \in 0..MaxCands}
MkResp(sh) ==
    [c \in 1..Len(sh) |-> [p \in 1..Len(sh[c]) |-> MkPart(sh[c][p], c, p)]]
Responses == {MkResp(sh) : sh \in RespShapes}

InitDecode ==
    /\ boxed_ok = TRUE
    /\ base_ok = TRUE
    /\ max_workers = NumVariants
    /\ fate = [i \in Variants |-> "ok"]
    /\ accepts = SeqSet(Conventions)
    /\ GenerateIdle
    /\ RoutesIdle
    /\ PromptIdle
    /\ ProbeIdle
    /\ resp \in Responses
    /\ dl \in [SeqSet(Conventions) -> DownloadOutcomes]
    /\ dec = [NoImageResult EXCEPT !.status = "idle"]
    /\ after = [next |-> "idle", err |-> "none"]

\* one call of _extract_image_from_response(resp, client)
Decode ==
    /\ dec.status = "idle"
    /\ dec' = ExtractImage(resp, dl)
    /\ UNCHANGED <<genEnv, routeVars, promptVars, probeVars, resp, dl, after,
                   mainVars, workVars>>

\* _one_variant, lines 186-198: what the attempt does with the decoder's
\* result
HandleDecoded ==
    /\ dec.status # "idle"
    /\ after.next = "idle"
    /\ after' = IF dec.status = "raise"
                THEN [next |-> OnException(dec.err), err |-> dec.err]
                ELSE IF NoBytes(dec.data)
                THEN [next |-> OnException("NoImage"), err |-> "NoImage"]
                ELSE [next |-> "SAVING", err |-> "none"]
    /\ UNCHANGED <<genEnv, routeVars, promptVars, probeVars, resp, dl, dec,
                   mainVars, workVars>>

NextDecode == Decode \/ HandleDecoded

SpecDecode == InitDecode /\ [][NextDecode]_vars

\* ---------------------------------------------------------------- prompt
\* A string is the sequence of its symbols; a symbol is a piece of text that
\* str.replace treats as a unit: a placeholder, a blank, or other text.
DirSlot == "{GLOBAL_DIRECTIVE}"
VarSlot == "{VAR}"
Blank   == " "

\* TEMPLATE: fixed text around the one directive slot and the one variant
\* slot
TEMPLATE == <<"TASK ... VALUE: ", DirSlot, " ... variant #", VarSlot, " ... OUTPUT">>

\* str.replace(old, new) for a one-symbol old
RECURSIVE Replace(_, _, _)
Replace(s, old, new) ==
    IF s = <<>> THEN <<>>
    ELSE (IF Head(s) = old THEN new ELSE <<Head(s)>>) \o Replace(Tail(s), old, new)

RECURSIVE lstrip(_)
lstrip(s) == IF s # <<>> /\ Head(s) = Blank THEN lstrip(Tail(s)) ELSE s

RECURSIVE rstrip(_)
rstrip(s) ==
    IF s # <<>> /\ s[Len(s)] = Blank THEN rstrip(SubSeq(s, 1, Len(s) - 1)) ELSE s

\* str.strip()
strip(s) == rstrip(lstrip(s))

\* str(n) for n in 0..99
DigitSymbols == <<"0", "1", "2", "3", "4", "5", "6", "7", "8", "9">>
str(n) ==
    IF n < 10 THEN <<DigitSymbols[n + 1]>>
    ELSE <<DigitSymbols[(n \div 10) + 1], DigitSymbols[(n % 10) + 1]>>

\* (global_str or "").strip(), then `g if g else "NONE"`
DirectiveText(gs) ==
    LET g == strip(IF gs.given THEN gs.text ELSE <<>>) IN
    IF g # <<>> THEN g ELSE <<"NONE">>

\* _build_prompt: the two replace calls, one after the other
build_prompt(gs, i) ==
    Replace(Replace(TEMPLATE, DirSlot, DirectiveText(gs)), VarSlot, str(i))

\* the directives handed in: absent, or any text of up to MaxDirective
\* symbols, which may be blanks and may spell a placeholder
Symbols == {"add snow", Blank, VarSlot, DirSlot}
Directives ==
    {[given |-> FALSE, text |-> <<>>]} \cup
    {[given |-> TRUE, text |-> t] :
        t \in UNION {[1..n -> Symbols] : n \in 0..MaxDirective}}

InitPrompt ==
    /\ boxed_ok = TRUE
    /\ base_ok = TRUE
    /\ max_workers = NumVariants
    /\ fate = [i \in Variants |-> "ok"]
    /\ accepts = SeqSet(Conventions)
    /\ GenerateIdle
    /\ DecoderIdle
    /\ ProbeIdle
    /\ RoutesIdle
    /\ global_directive \in Directives
    /\ variant_idx \in Variants
    /\ prompt = <<>>

\* _one_variant, line 165: prompt = _build_prompt(global_directive, i)
BuildPrompt ==
    /\ prompt = <<>>
    /\ prompt' = build_prompt(global_directive, variant_idx)
    /\ UNCHANGED <<genEnv, decVars, probeVars, routeVars, mainVars, workVars,
                   global_directive, variant_idx>>

NextPrompt == BuildPrompt

SpecPrompt == InitPrompt /\ [][NextPrompt]_vars

\* ----------------------------------------------------------- format probe
\* "" stands for None and for the empty string, which `or` treats alike
None == ""
Or(a, b) == IF a # None THEN a ELSE b

\* im.format of the decoded bytes: None for an image without a format,
\* "INVALID" for bytes Image.open rejects
Formats == {"PNG", "JPEG", "WEBP", "BMP", "TIFF", "GIF", None, "INVALID"}

FORMAT_TO_MIME ==
    [f \in Formats |->
        IF f = "PNG" THEN "image/png" ELSE IF f = "JPEG" THEN "image/jpeg"
        ELSE IF f = "WEBP" THEN "image/webp" ELSE IF f = "BMP" THEN "image/bmp"
        ELSE IF f = "TIFF" THEN "image/tiff" ELSE None]

FORMAT_TO_SUFFIX ==
    [f \in Formats |->
        IF f = "PNG" THEN ".png" ELSE IF f = "JPEG" THEN ".jpg"
        ELSE IF f = "WEBP" THEN ".webp" ELSE IF f = "BMP" THEN ".bmp"
        ELSE IF f = "TIFF" THEN ".tiff" ELSE None]

\* the extensions of the file names handed in; "" is a name without one
Extensions == {"", ".jpg", ".JPG", ".jpeg", ".png", ".gif", ".tiff", ".xyz"}

\* str.lower() on these extensions
lower(e) == IF e = ".JPG" THEN ".jpg" ELSE e

\* mimetypes.guess_type(name)[0], which looks the lowered extension up
guess_type(e) ==
    LET x == lower(e) IN
    IF x \in {".jpg", ".jpeg"} THEN "image/jpeg"
    ELSE IF x = ".png" THEN "image/png"
    ELSE IF x = ".gif" THEN "image/gif"
    ELSE IF x = ".tiff" THEN "image/tiff"
    ELSE None

Hints ==
    {[given |-> FALSE, ext |-> ""]} \cup {[given |-> TRUE, ext |-> e] : e \in Extensions}

\* _infer_mime_and_suffix_from_bytes
infer_mime_and_suffix(fmt, hint) ==
    LET mime_hint   == IF hint.given THEN guess_type(hint.ext) ELSE None
        suffix_hint == IF hint.given THEN lower(hint.ext) ELSE None
    IN  IF fmt = "INVALID"
        THEN [status |-> "raise", mime |-> None, suffix |-> None]
        ELSE [status |-> "ok",
              mime   |-> Or(mime_hint, Or(FORMAT_TO_MIME[fmt], "image/png")),
              suffix |-> Or(suffix_hint, Or(FORMAT_TO_SUFFIX[fmt], ".png"))]

InitProbe ==
    /\ boxed_ok = TRUE
    /\ base_ok = TRUE
    /\ max_workers = NumVariants
    /\ fate = [i \in Variants |-> "ok"]
    /\ accepts = SeqSet(Conventions)
    /\ GenerateIdle
    /\ DecoderIdle
    /\ PromptIdle
    /\ RoutesIdle
    /\ filename_hint \in Hints
    /\ photo_format \in Formats
    /\ probed = [status |-> "idle", mime |-> "", suffix |-> ""]

\* generate, lines 146-147: one call of the probe
Probe ==
    /\ probed.status = "idle"
    /\ probed' = infer_mime_and_suffix(photo_format, filename_hint)
    /\ UNCHANGED <<genEnv, decVars, promptVars, routeVars, mainVars, workVars,
                   filename_hint, photo_format>>

NextProbe == Probe

SpecProbe == InitProbe /\ [][NextProbe]_vars

\* ------------------------------------------------------------ route layer
\* A path is the directory below storage and the fields its file name is
\* formatted from; EmptyPath is the string '', NonePath the value None.
EmptyPath == [dir |-> "", c |-> 0, e |-> 0, kind |-> "", id |-> 0]
NonePath  == [dir |-> "None", c |-> 0, e |-> 0, kind |-> "", id |-> 0]
Falsy(path) == path \in {EmptyPath, NonePath}

dir_for_kind(kind) ==
    IF kind = "og" THEN "originals" ELSE IF kind = "mod" THEN "modified" ELSE "outputs"

NameWithoutId(cid, e, kind, id) ==
    [dir |-> dir_for_kind(kind), c |-> cid, e |-> e, kind |-> kind, id |-> 0]
\* write_reserved_image: <kind_dir>/c{cid}_e{edit}_{kind}_id{image_id}.png
\* is both the file written and, relative to the project, the path stored
rel_path(cid, e, kind, id) ==
    [dir |-> dir_for_kind(kind), c |-> cid, e |-> e, kind |-> kind, id |-> id]

\* the row INSERT INTO images(path) VALUES ('') creates
Placeholder == [path |-> EmptyPath]

\* the row of image id once write_reserved_image has set its path
StoredRow(id, cid, e, kind) == [path |-> rel_path(cid, e, kind, id)]

\* read_path_by_id: the path of the row, None if there is no row
read_path_by_id(id) == IF id \in 1..Len(images) THEN images[id].path ELSE NonePath

\* the store after a completed POST /conversations
OneConversation ==
    /\ images = <<StoredRow(1, 1, 0, "og")>>
    /\ files = {[path |-> rel_path(1, 0, "og", 1), id |-> 1]}
    /\ convs = <<[current |-> 1]>>
    /\ messages = <<>>
    /\ reqs = [r \in Requests |-> NewRequest]

InitRoutes ==
    /\ boxed_ok = TRUE
    /\ base_ok = TRUE
    /\ max_workers = NumVariants
    /\ fate = [i \in Variants |-> "ok"]
    /\ accepts = SeqSet(Conventions)
    /\ GenerateIdle
    /\ DecoderIdle
    /\ PromptIdle
    /\ ProbeIdle
    /\ (RoutesIdle \/ OneConversation)

Set(r, rec) == reqs' = [reqs EXCEPT ![r] = rec]
Respond(r, c) == Set(r, [reqs[r] EXCEPT !.pc = "done", !.code = c])
\* an error response of handler op before it has changed anything
Reject(r, op, c) == Set(r, [reqs[r] EXCEPT !.op = op, !.pc = "done", !.code = c])
genSide == <<genEnv, decVars, promptVars, probeVars, mainVars, workVars>>

\* what a call of generate_four_edits_from_two_bytes gives its caller: 0
\* stands for an exception, k >= 1 for a list of k paths
GenerateOutcomes == 0..NumVariants

\* create_conversation, lines 20-30: reject a request without image, else
\* insert the conversation with current_image_id 0
CreateInsert(r) ==
    /\ reqs[r].pc = "new"
    /\ \E has_file \in BOOLEAN :
          IF has_file
          THEN /\ convs' = Append(convs, [current |-> 0])
               /\ Set(r, [reqs[r] EXCEPT !.op = "create", !.pc = "c_reserve",
                                         !.cid = Len(convs) + 1])
          ELSE /\ Reject(r, "create", 400)
               /\ convs' = convs
    /\ UNCHANGED <<genSide, images, files, messages>>

\* the continuation of a handler after reserve_image_id
AfterReserve ==
    [c_reserve |-> "c_write", e_og_reserve |-> "e_og_write",
     e_mod_reserve |-> "e_mod_write", e_out_reserve |-> "e_out_write"]

\* reserve_image_id: one transaction inserting the placeholder row
Reserve(r) ==
    /\ reqs[r].pc \in DOMAIN AfterReserve
    /\ images' = Append(images, Placeholder)
    /\ Set(r, [reqs[r] EXCEPT !.pc = AfterReserve[reqs[r].pc],
                              !.cur_id = Len(images) + 1,
                              !.stores = @ + 1])
    /\ UNCHANGED <<genSide, files, convs, messages>>

\* write_reserved_image: write the file, then set the row's path
WriteRow(id, cid, e, kind) ==
    /\ files' = files \cup {[path |-> rel_path(cid, e, kind, id), id |-> id]}
    /\ images' = [images EXCEPT ![id] = StoredRow(id, cid, e, kind)]

\* write_reserved_image raises while writing the file (lines 40-41): the
\* exception ends the request, the placeholder row stays
WriteFails(r) ==
    /\ reqs[r].pc \in {"c_write", "e_og_write", "e_mod_write", "e_out_write"}
    /\ Respond(r, 500)
    /\ UNCHANGED <<genSide, images, files, convs, messages>>

\* create_conversation, line 32 after the reservation
CreateWrite(r) ==
    /\ reqs[r].pc = "c_write"
    /\ WriteRow(reqs[r].cur_id, reqs[r].cid, 0, "og")
    /\ Set(r, [reqs[r] EXCEPT !.pc = "c_update"])
    /\ UNCHANGED <<genSide, convs, messages>>

\* create_conversation, lines 34-38
CreateUpdate(r) ==
    /\ reqs[r].pc = "c_update"
    /\ convs' = [convs EXCEPT ![reqs[r].cid].current = reqs[r].cur_id]
    /\ Respond(r, 200)
    /\ UNCHANGED <<genSide, images, files, messages>>

\* conversation_edits, lines 58-72: both files are required and the
\* conversation has to exist
EditCheck(r) ==
    /\ reqs[r].pc = "new"
    /\ \E has_files \in BOOLEAN : \E c \in 1..(Len(convs) + 1) :
          IF ~has_files THEN Reject(r, "edit", 400)
          ELSE IF c > Len(convs) THEN Reject(r, "edit", 404)
          ELSE Set(r, [reqs[r] EXCEPT !.op = "edit", !.pc = "e_count", !.cid = c])
    /\ UNCHANGED <<genSide, images, files, convs, messages>>

EditMessages(c) ==
    {k \in 1..Len(messages) : messages[k].cid = c /\ messages[k].kind = "edit"}

\* conversation_edits, lines 75-77
EditCount(r) ==
    /\ reqs[r].pc = "e_count"
    /\ Set(r, [reqs[r] EXCEPT !.pc = "e_og_reserve",
                              !.edit_index = Cardinality(EditMessages(reqs[r].cid)) + 1])
    /\ UNCHANGED <<genSide, images, files, convs, messages>>

\* conversation_edits, line 80 after the reservation
EditWriteOrig(r) ==
    /\ reqs[r].pc = "e_og_write"
    /\ WriteRow(reqs[r].cur_id, reqs[r].cid, reqs[r].edit_index, "og")
    /\ Set(r, [reqs[r] EXCEPT !.pc = "e_mod_reserve", !.orig_id = reqs[r].cur_id])
    /\ UNCHANGED <<genSide, convs, messages>>

\* conversation_edits, lines 81-84 after the reservation
EditWriteMod(r) ==
    /\ reqs[r].pc = "e_mod_write"
    /\ WriteRow(reqs[r].cur_id, reqs[r].cid, reqs[r].edit_index, "mod")
    /\ Set(r, [reqs[r] EXCEPT !.pc = "e_generate", !.mod_id = reqs[r].cur_id])
    /\ UNCHANGED <<genSide, convs, messages>>

\* `for p in paths`: one iteration per returned path
Iterations(k) == k

\* conversation_edits, line 87: an exception ends the request (500), a
\* list of k paths starts the storing loop
EditGenerate(r) ==
    /\ reqs[r].pc = "e_generate"
    /\ \E k \in GenerateOutcomes :
          IF k = 0 THEN Respond(r, 500)
          ELSE Set(r, [reqs[r] EXCEPT !.pc = "e_out_reserve", !.paths = k,
                                      !.todo = Iterations(k)])
    /\ UNCHANGED <<genSide, images, files, convs, messages>>

\* conversation_edits, lines 89-99: one iteration of the storing loop after
\* the reservation
EditWriteOut(r) ==
    /\ reqs[r].pc = "e_out_write"
    /\ WriteRow(reqs[r].cur_id, reqs[r].cid, reqs[r].edit_index, "out")
    /\ Set(r, [reqs[r] EXCEPT
                  !.outputs = Append(@, reqs[r].cur_id),
                  !.todo = @ - 1,
                  !.pc = IF reqs[r].todo > 1 THEN "e_out_reserve" ELSE "e_log"])
    /\ UNCHANGED <<genSide, convs, messages>>

Message(c, role, kind, r, ids) ==
    [cid |-> c, role |-> role, kind |-> kind, req |-> r, ids |-> ids]

EditMessageOnly(r) ==
    << Message(reqs[r].cid, "user", "edit", r, <<reqs[r].orig_id, reqs[r].mod_id>>) >>
\* the two INSERTs of lines 103-119
LoggedMessages(r) ==
    << Message(reqs[r].cid, "user", "edit", r, <<reqs[r].orig_id, reqs[r].mod_id>>),
       Message(reqs[r].cid, "assistant", "generation", r, reqs[r].outputs) >>

\* conversation_edits, lines 102-122: both messages in one transaction
EditLog(r) ==
    /\ reqs[r].pc = "e_log"
    /\ messages' = messages \o LoggedMessages(r)
    /\ Respond(r, 200)
    /\ UNCHANGED <<genSide, images, files, convs>>

\* what a client can send as selected_image_id: a falsy value (null, 0,
\* ""), an integer or its decimal text, a number with a fraction, or a text
\* that is not a number
RawKinds == {"falsy", "integer", "fraction", "text"}

\* int(sel_id) succeeds: on an integer, on its decimal text, and on a float,
\* which it truncates
IntAccepts(kind) == kind \in {"integer", "fraction"}

\* select_variant, lines 126-150: the deselect branch in one transaction,
\* else the conversion to int and the lookup of the image
SelectCheck(r) ==
    /\ reqs[r].pc = "new"
    /\ \E c \in 1..(Len(convs) + 1) : \E kind \in RawKinds :
       \E n \in IF kind \in {"integer", "fraction"} THEN 1..(Len(images) + 1) ELSE {0} :
          LET q == [reqs[r] EXCEPT !.op = "select", !.cid = c, !.raw = kind] IN
          IF kind = "falsy"
          THEN IF c > Len(convs)
               THEN Set(r, [q EXCEPT !.pc = "done", !.code = 404]) /\ messages' = messages
               ELSE /\ messages' = Append(messages, Message(c, "user", "selection", r, <<>>))
                    /\ Set(r, [q EXCEPT !.pc = "done", !.code = 200])
          ELSE /\ messages' = messages
               /\ IF ~IntAccepts(kind) THEN Set(r, [q EXCEPT !.pc = "done", !.code = 400])
                  ELSE IF Falsy(read_path_by_id(n))
                  THEN Set(r, [q EXCEPT !.sel = n, !.pc = "done", !.code = 404])
                  ELSE Set(r, [q EXCEPT !.sel = n, !.pc = "s_update"])
    /\ UNCHANGED <<genSide, images, files, convs>>

\* select_variant, lines 151-163: update and message in one transaction
SelectUpdate(r) ==
    /\ reqs[r].pc = "s_update"
    /\ IF reqs[r].cid > Len(convs)
       THEN /\ Respond(r, 404)
            /\ UNCHANGED <<convs, messages>>
       ELSE /\ convs' = [convs EXCEPT ![reqs[r].cid].current = reqs[r].sel]
            /\ messages' = Append(messages,
                  Message(reqs[r].cid, "user", "selection", r, <<reqs[r].sel>>))
            /\ Respond(r, 200)
    /\ UNCHANGED <<genSide, images, files>>

\* edits, lines 19-40: validation, then the generation call
PlainEdits(r) ==
    /\ reqs[r].pc = "new"
    /\ \E valid \in BOOLEAN : \E k \in GenerateOutcomes :
          IF ~valid THEN Reject(r, "edits", 400)
          ELSE IF k = 0 THEN Reject(r, "edits", 500)
          ELSE Set(r, [reqs[r] EXCEPT !.op = "edits", !.pc = "x_store",
                                      !.paths = k, !.todo = Iterations(k)])
    /\ UNCHANGED <<genSide, images, files, convs, messages>>

\* edits, lines 42-47: one iteration; save_bytes_as_id allocates the id,
\* writes the file and sets the path
PlainStore(r) ==
    /\ reqs[r].pc = "x_store"
    /\ LET id == Len(images) + 1
           path == [dir |-> "images", c |-> 0, e |-> 0, kind |-> "", id |-> id]
       IN
       /\ images' = Append(images, [path |-> path])
       /\ files' = files \cup {[path |-> path, id |-> id]}
       /\ Set(r, [reqs[r] EXCEPT
                     !.outputs = Append(@, id),
                     !.todo = @ - 1,
                     !.pc = IF reqs[r].todo > 1 THEN "x_store" ELSE "done",
                     !.code = IF reqs[r].todo > 1 THEN 0 ELSE 200])
    /\ UNCHANGED <<genSide, convs, messages>>

NextRoutes ==
    \E r \in Requests :
        \/ CreateInsert(r) \/ Reserve(r) \/ CreateWrite(r) \/ CreateUpdate(r)
        \/ WriteFails(r)
        \/ EditCheck(r) \/ EditCount(r) \/ EditWriteOrig(r) \/ EditWriteMod(r)
        \/ EditGenerate(r) \/ EditWriteOut(r) \/ EditLog(r)
        \/ SelectCheck(r) \/ SelectUpdate(r)
        \/ PlainEdits(r) \/ PlainStore(r)

SpecRoutes == InitRoutes /\ [][NextRoutes]_vars

\* ================================================================ claims
DoneSet   == {i \in Variants : pc[i] = "DONE"}
FailedSet == {i \in Variants : pc[i] = "FAILED"}
ValidInput == boxed_ok /\ base_ok
Terminated == main \in {"returned", "raised"}

\* C1: for valid inputs generate returns 1 to 4 paths when at least one
\* variant succeeded and raises "All variants failed" if and only if no
\* variant succeeded; it never returns an empty list.
C1_ReturnsOrRaisesAggregate ==
    /\ main = "returned" =>
          /\ Len(ret) >= 1 /\ Len(ret) <= 4
          /\ DoneSet # {}
          /\ error = "none"
    /\ (ValidInput /\ Terminated) =>
          ((main = "raised" /\ error = "AllVariantsFailed") <=> DoneSet = {})
    /\ error = "AllVariantsFailed" => (main = "raised" /\ FailedSet = Variants)

C1_Witness ==
    main = "raised" /\ error = "AllVariantsFailed" /\ FailedSet = Variants

\* C2: the result collection holds only paths of variants that reached
\* DONE, each at most once; on return the result is exactly the set of the
\* paths of the DONE variants, with no entry of a FAILED variant.
C2_ResultOnlyDone ==
    /\ \A k \in 1..Len(saved) : \E i \in DoneSet : saved[k] = out_path(i)
    /\ \A k, l \in 1..Len(saved) : k # l => saved[k] # saved[l]
    /\ main = "returned" =>
          /\ SeqSet(ret) = {out_path(i) : i \in DoneSet}
          /\ Len(ret) = Cardinality(DoneSet)
          /\ \A i \in FailedSet : out_path(i) \notin SeqSet(ret)

C2_Witness ==
    main = "returned" /\ FailedSet # {} /\ Cardinality(DoneSet) >= 2

\* the paths of the variants of S, by increasing variant index from i on
RECURSIVE PathsFrom(_, _)
PathsFrom(i, S) ==
    IF i > NumVariants THEN <<>>
    ELSE (IF i \in S THEN <<out_path(i)>> ELSE <<>>) \o PathsFrom(i + 1, S)

\* C3: the returned sequence is in increasing variant-index order and is
\* determined by the set of successful variants alone, whatever the order
\* in which the workers completed.
C3_IndexOrder ==
    main = "returned" => ret = PathsFrom(1, DoneSet)

C3_Witness ==
    main = "returned" /\ Len(saved) >= 3 /\ saved # ret

\* C4: variants that always report "no image" (the set S, non-empty and not
\* all four) never keep their always-succeeding siblings from DONE: no
\* sibling fails and generate returns exactly 4 - |S| outputs.
AlwaysNoImage == {i \in Variants : fate[i] = "noimage"}

C4_SiblingsUnaffected ==
    ( /\ \A i \in Variants : fate[i] \in {"ok", "noimage"}
      /\ AlwaysNoImage # {}
      /\ AlwaysNoImage # Variants )
    =>
    /\ \A i \in Variants \ AlwaysNoImage : pc[i] # "FAILED"
    /\ \A i \in AlwaysNoImage : pc[i] # "DONE"
    /\ (ValidInput /\ Terminated) =>
          /\ main = "returned"
          /\ Len(ret) = 4 - Cardinality(AlwaysNoImage)

C4_Witness ==
    /\ Cardinality(AlwaysNoImage) = 1
    /\ \A i \in Variants : fate[i] \in {"ok", "noimage"}
    /\ main = "returned"
    /\ Len(ret) = 3
    /\ Cardinality(FailedSet) = 1

\* C5: a worker makes at most 4 attempts, one generation call each; it is
\* FAILED exactly when its 4th attempt failed, and its error then names its
\* variant index and carries the failure of the 4th attempt.
C5_AttemptBudget ==
    \A i \in Variants :
        /\ attempt[i] <= 4
        /\ calls[i] <= 4
        /\ calls[i] = attempt[i]
        /\ pc[i] = "FAILED" =>
              /\ attempt[i] = 4
              /\ cause[i].at = 4
              /\ exc[i].variant = i
              /\ exc[i].last = cause[i].kind
        /\ cause[i].at = 4 => pc[i] \in {"SLEEP", "FAILED"}
        /\ pc[i] = "DONE" => cause[i].at < attempt[i]

C5_Witness ==
    \E i \in Variants :
        pc[i] = "FAILED" /\ exc[i] = [variant |-> i, last |-> "SaveErr"]

\* C6: the delay after the k-th failed attempt is min(2^(k-1), 8); a worker
\* whose first 3 attempts fail and whose 4th succeeds has slept 1+2+4 = 7
\* units and returns its saved output with no error.
C6_BackoffSchedule ==
    \A i \in Variants :
        /\ \A k \in 1..Len(sleeps[i]) : sleeps[i][k] = Min(Pow2(k - 1), 8)
        /\ pc[i] = "SLEEP" => backoff[i] = Min(Pow2(attempt[i] - 1), 8)
        /\ (pc[i] = "DONE" /\ attempt[i] = 4) =>
              /\ SumSeq(sleeps[i]) = 7
              /\ exc[i].variant = 0
              /\ disk[i] = "complete"

C6_Witness ==
    \E i \in Variants :
        pc[i] = "DONE" /\ attempt[i] = 4 /\ sleeps[i] = <<1, 2, 4>>

\* C7: the number of workers that have started and are not yet DONE or
\* FAILED (those in a backoff delay included) never exceeds max_workers;
\* the other variants stay queued.
C7_PoolWidth ==
    /\ NumRunning <= max_workers
    /\ \A i \in Variants :
          (pc[i] = "PENDING" /\ NumRunning < max_workers)
              => \A j \in Variants : j > i => ~Running(j)

C7_Witness ==
    /\ max_workers = 2
    /\ NumRunning = 2
    /\ \E i \in Variants : pc[i] = "SLEEP"
    /\ \E i \in Variants : pc[i] = "PENDING"

\* The retry rule of a worker for a set K of failure kinds: a new attempt
\* starts only after a failure of a kind in K, every failure of an attempt
\* leads to the backoff and, while attempts remain, to the next attempt,
\* and a worker that is DONE makes no further attempt.
RetryRule(K) ==
    \A i \in Variants :
        /\ (attempt[i] >= 1 /\ attempt'[i] # attempt[i]) =>
              /\ pc[i] = "SLEEP"
              /\ last_err[i] \in K
              /\ attempt'[i] = attempt[i] + 1
              /\ pc'[i] = "CALLING"
        /\ cause'[i] # cause[i] =>
              /\ pc[i] \in {"CALLING", "DECODING", "SAVING"}
              /\ cause'[i].kind \in K
              /\ last_err'[i] = cause'[i].kind
              /\ pc'[i] = "SLEEP"
        /\ (pc[i] = "SLEEP" /\ attempt[i] < 4 /\ pc'[i] # pc[i]) =>
              /\ pc'[i] = "CALLING"
              /\ attempt'[i] = attempt[i] + 1
        /\ (pc[i] = "SAVING" /\ cause'[i] = cause[i] /\ pc'[i] # pc[i]) =>
              pc'[i] = "DONE"
        /\ pc[i] = "DONE" =>
              /\ pc'[i] = "DONE"
              /\ attempt'[i] = attempt[i]
              /\ calls'[i] = calls[i]

\* C8 as stated: exactly three outcomes lead back to a new attempt (an
\* exception of the generation call, "no image produced", a failed write).
C8_ThreeTriggers ==
    [][RetryRule({"CallErr", "NoImage", "SaveErr"})]_vars

\* C8 as amended: a failed secondary fetch during decoding (transport error
\* or unrecognized download signature) is a fourth outcome that leads back
\* to a new attempt; these four and nothing else do.
C8_RetryTriggers ==
    [][RetryRule({"CallErr", "NoImage", "SaveErr", "FetchErr", "ConfigErr"})]_vars

C8_Witness ==
    \E i \in Variants :
        pc[i] = "CALLING" /\ attempt[i] = 2 /\ last_err[i] = "FetchErr"

\* C9: when the boxed or the base image is not a valid image generate
\* raises the decode error at once: no task is created, no generation call
\* is made, no backoff is slept and no file is written.
C9_InvalidInputFailsFast ==
    (~boxed_ok \/ ~base_ok) =>
        /\ main \in {"idle", "raised"}
        /\ main = "raised" => error = "DecodeError"
        /\ saved = <<>> /\ ret = <<>>
        /\ \A i \in Variants :
              /\ pc[i] = "NONE"
              /\ calls[i] = 0
              /\ sleeps[i] = <<>>
              /\ disk[i] = "absent"

C9_Witness ==
    boxed_ok /\ ~base_ok /\ main = "raised" /\ error = "DecodeError"

\* C10: a configuration fault (the download rejected under every calling
\* convention) is fatal: the worker applies no backoff for it and makes no
\* further attempt.
C10_ConfigFaultNotRetried ==
    \A i \in Variants :
        cause[i].kind = "ConfigErr" =>
            /\ pc[i] = "FAILED"
            /\ attempt[i] = cause[i].at
            /\ Len(sleeps[i]) = cause[i].at - 1

\* C11: when generate has finished, a file is at a variant's output path
\* only if the variant is DONE, and it is the complete image; no failed
\* save leaves a partial file at the final path.
C11_NoPartialFile ==
    \A i \in Variants :
        /\ disk[i] \in {"absent", "complete"}
        /\ Terminated => (disk[i] = "complete" <=> pc[i] = "DONE")

\* positions of the parts, in scan order, that carry inline data / a file
\* reference with a uri
InlineAt(ps) == {k \in 1..Len(ps) : ps[k].inline # NoneV}
FileAt(ps)   == {k \in 1..Len(ps) : ps[k].file >= 1}
Lowest(S)    == CHOOSE k \in S : \A l \in S : k <= l
Decoded      == dec.status # "idle"

\* C12: the decoder returns the first inline payload of the whole response
\* and fetches nothing whenever any part carries inline data, also when a
\* file reference comes earlier in the response.
C12_InlineFirst ==
    Decoded =>
        LET ps == AllParts(resp) IN
        /\ InlineAt(ps) # {} =>
              /\ dec.status = "ok"
              /\ dec.data = ps[Lowest(InlineAt(ps))].inline
              /\ dec.fetched = <<>>
              /\ dec.tried = 0
        /\ dec.fetched # <<>> => InlineAt(ps) = {}

C12_Witness ==
    /\ Decoded
    /\ LET ps == AllParts(resp) IN
       /\ InlineAt(ps) # {} /\ FileAt(ps) # {}
       /\ Lowest(FileAt(ps)) < Lowest(InlineAt(ps))
       /\ ps[Lowest(InlineAt(ps))].inline >= 1
       /\ dec.data = ps[Lowest(InlineAt(ps))].inline

\* C13: with no inline payload and one or more file references the decoder
\* makes exactly one secondary fetch, of the first reference in scan order,
\* and returns the bytes it produced; with neither it returns (none, none)
\* without raising and without a fetch.
C13_OneFetch ==
    Decoded =>
        LET ps == AllParts(resp) IN
        /\ (InlineAt(ps) = {} /\ FileAt(ps) # {}) =>
              LET u == ps[Lowest(FileAt(ps))].file IN
              /\ dec.fetched = <<u>>
              /\ dec.tried >= 1
              /\ dl["name"] # "TypeError" => dec.tried = 1
              /\ dec.status = "ok" => dec.data = RemoteBytes(u)
              /\ dec.status = "ok" <=>
                    (\E k \in 1..Len(Conventions) :
                        /\ dl[Conventions[k]] = "bytes"
                        /\ \A l \in 1..(k - 1) : dl[Conventions[l]] = "TypeError")
        /\ (InlineAt(ps) = {} /\ FileAt(ps) = {}) => dec = NoImageResult

C13_Witness ==
    /\ Decoded
    /\ LET ps == AllParts(resp) IN
       /\ InlineAt(ps) = {}
       /\ Cardinality(FileAt(ps)) >= 2
       /\ dec.status = "ok"
       /\ dec.fetched = <<ps[Lowest(FileAt(ps))].file>>

\* C14: when generate returns or raises the aggregate error, a warning has
\* been logged for every FAILED variant, carrying that variant's error: a
\* result of fewer than 4 outputs comes with one warning per missing one.
C14_WarnedBeforeReturn ==
    /\ warned \subseteq {exc[i] : i \in FailedSet \cap collected}
    /\ (ValidInput /\ Terminated) =>
          /\ warned = {exc[i] : i \in FailedSet}
          /\ \A i \in FailedSet :
                \E w \in warned : w.variant = i /\ w.last = last_err[i]
          /\ Cardinality(warned) = 4 - Cardinality(DoneSet)
          /\ main = "returned" => Cardinality(warned) = 4 - Len(ret)

C14_Witness ==
    main = "returned" /\ Len(ret) = 2 /\ Cardinality(warned) = 2

\* C17: every backoff delay is followed by another attempt of the same
\* variant: no worker sleeps after its 4th failure, and a worker that is
\* FAILED has slept 1+2+4 units only.
C17_NoDelayAfterLastAttempt ==
    \A i \in Variants :
        /\ pc[i] = "SLEEP" => attempt[i] < 4
        /\ pc[i] = "FAILED" => sleeps[i] = <<1, 2, 4>>

\* the blocking points of a worker: the generation call, the decode with
\* its secondary fetch, the file write and the backoff delay
Blocked(i) == Running(i)
FirstPending == CHOOSE j \in Variants :
                    pc[j] = "PENDING" /\ \A k \in Variants : k < j => pc[k] # "PENDING"

\* C18 as stated: while a worker is blocked every other non-terminal
\* variant can continue or start, at every pool width.
C18_NeverWaits ==
    \A i \in Variants : Blocked(i) =>
        \A j \in Variants \ {i} :
            /\ Running(j) => ENABLED WorkerStep(j)
            /\ pc[j] = "PENDING" => ENABLED Start(FirstPending)

\* C18 as amended: a started variant can always continue; a queued variant
\* can start exactly when fewer than max_workers workers are running, which
\* is always the case when max_workers >= 4.
C18_IndependentWithinWidth ==
    \A i \in Variants : Blocked(i) =>
        \A j \in Variants \ {i} :
            /\ Running(j) => ENABLED WorkerStep(j)
            /\ pc[j] = "PENDING" =>
                  /\ (ENABLED Start(FirstPending)) <=> (NumRunning < max_workers)
                  /\ max_workers >= 4 => ENABLED Start(FirstPending)

C18_Witness ==
    /\ max_workers = 4
    /\ pc[1] = "SLEEP"
    /\ pc[2] = "DONE"
    /\ pc[3] = "SAVING"
    /\ pc[4] = "PENDING"

\* the edges of the worker state machine; the retry edge passes through
\* the backoff delay
WorkerEdges ==
    { <<"NONE", "PENDING">>, <<"PENDING", "CALLING">>,
      <<"CALLING", "DECODING">>, <<"DECODING", "SAVING">>, <<"SAVING", "DONE">>,
      <<"CALLING", "SLEEP">>, <<"DECODING", "SLEEP">>, <<"SAVING", "SLEEP">>,
      <<"SLEEP", "CALLING">>, <<"SLEEP", "FAILED">> }

\* C19: a worker moves only along PENDING, CALLING, DECODING, SAVING,
\* DONE, with the retry edge from CALLING, DECODING or SAVING back to
\* CALLING and the edge to FAILED only when the 4 attempts are used up;
\* DONE and FAILED are terminal and the attempt counter never decreases.
C19_WorkerStateMachine ==
    [][\A i \in Variants :
          /\ pc'[i] # pc[i] => <<pc[i], pc'[i]>> \in WorkerEdges
          /\ pc'[i] = "FAILED" => attempt'[i] = 4
          /\ (pc[i] = "SLEEP" /\ pc'[i] = "CALLING") =>
                (attempt[i] < 4 /\ attempt'[i] = attempt[i] + 1)
          /\ pc[i] \in {"DONE", "FAILED"} => pc'[i] = pc[i]
          /\ attempt'[i] >= attempt[i]]_vars

C19_Witness ==
    \E i \in Variants : pc[i] = "DONE" /\ attempt[i] = 3

\* C20: generate returns or raises (for valid inputs) only when all four
\* variants are DONE or FAILED and have been collected; a finished sibling
\* never cuts short a variant that is still retrying.
C20_WaitsForAll ==
    /\ (ValidInput /\ Terminated) =>
          /\ \A i \in Variants : pc[i] \in {"DONE", "FAILED"}
          /\ collected = Variants
    /\ \A i \in Variants : pc[i] = "FAILED" => (attempt[i] = 4 /\ calls[i] = 4)

C20_Witness ==
    /\ main = "returned"
    /\ \E i \in Variants : pc[i] = "FAILED" /\ SumSeq(sleeps[i]) = 15
    /\ \E i \in Variants : pc[i] = "DONE" /\ attempt[i] = 1
\* a request answered 200 by one of the two edit routes
EditSucceeded(r) ==
    reqs[r].pc = "done" /\ reqs[r].code = 200 /\ reqs[r].op \in {"edit", "edits"}

\* C15: every edit request that succeeds, on either route, has stored and
\* returned exactly 4 outputs
C15_ExactlyFour ==
    \A r \in Requests :
        EditSucceeded(r) =>
            /\ Len(reqs[r].outputs) = NumVariants
            /\ \A k \in 1..Len(reqs[r].outputs) :
                  ~Falsy(read_path_by_id(reqs[r].outputs[k]))

\* the positions of the edit and generation messages of request r
LoggedAt(r) ==
    {k \in 1..Len(messages) :
        messages[k].req = r /\ messages[k].kind \in {"edit", "generation"}}

\* C16: a completed conversation edit request has appended exactly two
\* messages to its conversation, the user/edit message and right after it
\* the assistant/generation message listing the stored outputs; a request
\* that has not completed successfully has appended none
C16_TwoAdjacentMessages ==
    \A r \in Requests :
        IF reqs[r].op = "edit" /\ reqs[r].pc = "done" /\ reqs[r].code = 200
        THEN \E k \in 1..(Len(messages) - 1) :
                /\ LoggedAt(r) = {k, k + 1}
                /\ messages[k].cid = reqs[r].cid
                /\ messages[k].role = "user" /\ messages[k].kind = "edit"
                /\ messages[k + 1].cid = reqs[r].cid
                /\ messages[k + 1].role = "assistant"
                /\ messages[k + 1].kind = "generation"
                /\ messages[k + 1].ids = reqs[r].outputs
                /\ \A j \in 1..Len(reqs[r].outputs) :
                      ~Falsy(read_path_by_id(reqs[r].outputs[j]))
        ELSE LoggedAt(r) = {}

\* two overlapping edit requests of one conversation have both completed,
\* the one that stored its inputs first logging last
C16_Witness ==
    \E r, q \in Requests :
        /\ r # q
        /\ reqs[r].op = "edit" /\ reqs[r].pc = "done" /\ reqs[r].code = 200
        /\ reqs[q].op = "edit" /\ reqs[q].pc = "done" /\ reqs[q].code = 200
        /\ reqs[r].cid = reqs[q].cid
        /\ reqs[r].orig_id < reqs[q].orig_id
        /\ \A k \in LoggedAt(q) : \A j \in LoggedAt(r) : k < j
        /\ Len(messages) = 4

\* remote generation calls made so far by all variants
TotalCalls == calls[1] + calls[2] + calls[3] + calls[4]
AllTerminal == \A i \in Variants : pc[i] \in {"DONE", "FAILED"}

\* C21: generate creates the four variant tasks 1..4, each submitted once
\* and started once; every variant eventually reaches DONE or FAILED and
\* generate eventually returns or raises, after at most 16 remote
\* generation calls in total
C21_FourTasksTerminate ==
    /\ [](main = "collecting" => \A i \in Variants : pc[i] # "NONE")
    /\ [][\A i \in Variants :
            /\ (pc'[i] = "PENDING" /\ pc[i] # "PENDING") =>
                   (pc[i] = "NONE" /\ main = "idle")
            /\ (pc[i] = "PENDING" /\ pc'[i] # "PENDING") =>
                   (pc'[i] = "CALLING" /\ calls[i] = 0)
            /\ pc[i] # "NONE" => pc'[i] # "NONE"]_vars
    /\ [](TotalCalls <= NumVariants * MaxAttempts)
    /\ <>(Terminated /\ (ValidInput => AllTerminal))

\* a run that ended after all 16 calls, every variant having waited for a
\* pool thread or used all its attempts
C21_Witness ==
    /\ Terminated
    /\ AllTerminal
    /\ TotalCalls = NumVariants * MaxAttempts
    /\ max_workers < NumVariants

\* a step of the worker of variant i
StepOf(i) == pc[i] # "NONE" /\ pc'[i] # pc[i]

\* C22: a step of worker i leaves the state, attempt counter, backoff and
\* output file of every other worker unchanged and does not touch the
\* result collection; the collection grows only by the orchestrator
\* appending the path of a completed variant it has not collected before
C22_WorkerFrame ==
    [][ /\ \A i \in Variants :
              StepOf(i) =>
                 /\ \A j \in Variants \ {i} :
                        /\ pc'[j] = pc[j]
                        /\ attempt'[j] = attempt[j]
                        /\ backoff'[j] = backoff[j]
                        /\ last_err'[j] = last_err[j]
                        /\ disk'[j] = disk[j]
                 /\ saved' = saved
                 /\ collected' = collected
                 /\ ret' = ret
        /\ saved' # saved =>
              /\ main = "collecting"
              /\ \E i \in Variants \ collected :
                    /\ pc[i] = "DONE"
                    /\ collected' = collected \cup {i}
                    /\ saved' = Append(saved, out_path(i)) ]_vars

\* the first worker is in its third attempt while a sibling is saving and
\* another sibling's path has been collected
C22_Witness ==
    /\ attempt[1] = 3
    /\ backoff[1] = 4
    /\ \E j \in Variants \ {1} : pc[j] = "SAVING"
    /\ Len(saved) = 1

\* the conventions, in order, that did not fail with a signature error
Answering == {k \in 1..Len(Conventions) : dl[Conventions[k]] # "TypeError"}

\* C23: the secondary fetch tries name, then file; it returns the bytes of
\* the first convention that is accepted, goes on to the next one only
\* after a signature error, raises the configuration error only when every
\* convention was rejected, and lets any other error through at once
C23_ConventionOrder ==
    (Decoded /\ dec.fetched # <<>>) =>
        IF Answering = {}
        THEN /\ dec.status = "raise" /\ dec.err = "ConfigErr"
             /\ dec.tried = Len(Conventions)
        ELSE LET k == Lowest(Answering) IN
             /\ dec.tried = k
             /\ dec.err # "ConfigErr"
             /\ dl[Conventions[k]] = "bytes" =>
                   /\ dec.status = "ok"
                   /\ dec.data = RemoteBytes(dec.fetched[1])
             /\ dl[Conventions[k]] = "Error" =>
                   /\ dec.status = "raise" /\ dec.err = "FetchErr"
                   /\ dec.data = NoneV

\* the client rejected name= and served file=
C23_Witness ==
    /\ Decoded
    /\ dec.fetched # <<>>
    /\ dl["name"] = "TypeError" /\ dl["file"] = "bytes"
    /\ dec.status = "ok" /\ dec.tried = 2

\* the template with the directive slot and the variant slot filled in
Filled(dir, marker) ==
    <<TEMPLATE[1]>> \o dir \o <<TEMPLATE[3]>> \o marker \o <<TEMPLATE[5]>>

\* C24: build_prompt returns the template with the trimmed directive
\* verbatim in the directive slot (NONE when the directive is empty, blank
\* or absent) and the variant index as the marker, for every directive
C24_DirectiveVerbatim ==
    prompt # <<>> =>
        prompt = Filled(DirectiveText(global_directive), str(variant_idx))

\* the image format a MIME type or a suffix denotes
FormatOfMime ==
    [m \in {"image/png", "image/jpeg", "image/webp", "image/bmp", "image/tiff",
            "image/gif"} |->
        IF m = "image/png" THEN "PNG" ELSE IF m = "image/jpeg" THEN "JPEG"
        ELSE IF m = "image/webp" THEN "WEBP" ELSE IF m = "image/bmp" THEN "BMP"
        ELSE IF m = "image/tiff" THEN "TIFF" ELSE "GIF"]
FormatOfSuffix(x) ==
    IF x = ".png" THEN "PNG" ELSE IF x \in {".jpg", ".jpeg"} THEN "JPEG"
    ELSE IF x = ".webp" THEN "WEBP" ELSE IF x = ".bmp" THEN "BMP"
    ELSE IF x = ".tiff" THEN "TIFF" ELSE IF x = ".gif" THEN "GIF"
    ELSE "unknown"

\* C25: the probe takes the MIME type and the suffix each from the file
\* name hint if it gives one, else from the image's format, else image/png
\* and .png, and the pair it returns always denotes one format
C25_ProbeOrder ==
    probed.status = "ok" =>
        LET mh == IF filename_hint.given THEN guess_type(filename_hint.ext) ELSE None
            sh == IF filename_hint.given THEN lower(filename_hint.ext) ELSE None
        IN  /\ mh # None => probed.mime = mh
            /\ (mh = None /\ FORMAT_TO_MIME[photo_format] # None) =>
                   probed.mime = FORMAT_TO_MIME[photo_format]
            /\ (mh = None /\ FORMAT_TO_MIME[photo_format] = None) =>
                   probed.mime = "image/png"
            /\ sh # None => probed.suffix = sh
            /\ (sh = None /\ FORMAT_TO_SUFFIX[photo_format] # None) =>
                   probed.suffix = FORMAT_TO_SUFFIX[photo_format]
            /\ (sh = None /\ FORMAT_TO_SUFFIX[photo_format] = None) =>
                   probed.suffix = ".png"
            /\ FormatOfMime[probed.mime] = FormatOfSuffix(probed.suffix)

\* the first part with inline data carries an empty payload while a part
\* of the response has a usable file reference
EmptyInlineWithFile ==
    LET ps == AllParts(resp) IN
    /\ InlineAt(ps) # {}
    /\ ps[Lowest(InlineAt(ps))].inline = 0
    /\ FileAt(ps) # {}

\* C29: when the first inline part of a response has an empty payload and
\* the response also has a usable file reference, the decoder returns the
\* empty payload and fetches nothing, and the attempt raises the no-image
\* error, which sends the worker to its retry handler
C29_EmptyInlineRetried ==
    EmptyInlineWithFile =>
        /\ Decoded =>
              /\ dec.status = "ok"
              /\ dec.data = 0
              /\ dec.fetched = <<>>
              /\ dec.tried = 0
        /\ after.next # "idle" => after = [next |-> "SLEEP", err |-> "NoImage"]

\* the file reference comes first and would have been served
C29_Witness ==
    /\ EmptyInlineWithFile
    /\ LET ps == AllParts(resp) IN Lowest(FileAt(ps)) < Lowest(InlineAt(ps))
    /\ dl["name"] = "bytes"
    /\ after = [next |-> "SLEEP", err |-> "NoImage"]

\* request r gives its answer in this step, as the select handler
SelectAnswers(r) ==
    /\ reqs[r].pc # "done"
    /\ reqs'[r].pc = "done"
    /\ reqs'[r].op = "select"

\* C26: a select with a falsy id leaves the current image and appends one
\* selection message without an image id; a select with the integer id of
\* a stored image sets the current image and appends one selection message
\* in the same step; every other select (conversation or image not found,
\* id not an integer) answers with an error and changes neither the
\* conversations nor the messages
C26_SelectFrame ==
    [][\A r \in DOMAIN reqs : SelectAnswers(r) =>
          LET q == reqs'[r] IN
          IF q.cid > Len(convs) THEN
              /\ q.code \in {400, 404}
              /\ convs' = convs /\ messages' = messages
          ELSE IF q.raw = "falsy" THEN
              /\ q.code = 200
              /\ convs' = convs
              /\ messages' = Append(messages,
                                    Message(q.cid, "user", "selection", r, <<>>))
          ELSE IF q.raw = "integer" /\ ~Falsy(read_path_by_id(q.sel)) THEN
              /\ q.code = 200
              /\ convs' = [convs EXCEPT ![q.cid].current = q.sel]
              /\ messages' = Append(messages,
                                    Message(q.cid, "user", "selection", r, <<q.sel>>))
          ELSE
              /\ q.code \in {400, 404}
              /\ convs' = convs /\ messages' = messages ]_vars

\* the identifiers save_image_for_conversation has returned to request r
Returned(r) ==
    LET q == reqs[r] IN
    IF q.op = "create"
    THEN IF q.pc = "c_update" \/ (q.pc = "done" /\ q.code = 200)
         THEN <<q.cur_id>> ELSE <<>>
    ELSE IF q.op = "edit"
    THEN (IF q.orig_id # 0 THEN <<q.orig_id>> ELSE <<>>)
         \o (IF q.mod_id # 0 THEN <<q.mod_id>> ELSE <<>>) \o q.outputs
    ELSE <<>>

\* C27: overlapping requests never get the same identifier from the store
\* and never write the same path; read_path_by_id of a returned identifier
\* is the path written for it, and of an identifier never allocated the
\* not-found value; an edit request that answers has invoked the store
\* 2 + k times for k generated variants (twice when the generation raised)
C27_StoreConcurrent ==
    /\ \A r1, r2 \in DOMAIN reqs :
          \A k1 \in 1..Len(Returned(r1)) : \A k2 \in 1..Len(Returned(r2)) :
             Returned(r1)[k1] = Returned(r2)[k2] => (r1 = r2 /\ k1 = k2)
    /\ \A f, g \in files : (f.path = g.path \/ f.id = g.id) => f = g
    /\ \A r \in DOMAIN reqs : \A k \in 1..Len(Returned(r)) :
          /\ ~Falsy(read_path_by_id(Returned(r)[k]))
          /\ [path |-> read_path_by_id(Returned(r)[k]), id |-> Returned(r)[k]] \in files
    /\ read_path_by_id(Len(images) + 1) = NonePath
    /\ \A r \in DOMAIN reqs :
          (reqs[r].op = "edit" /\ reqs[r].pc = "done") =>
              /\ reqs[r].code = 200 =>
                    /\ reqs[r].stores = 2 + reqs[r].paths
                    /\ Len(Returned(r)) = 2 + reqs[r].paths
                    /\ reqs[r].paths >= 1
              /\ (reqs[r].mod_id # 0 /\ reqs[r].paths = 0) =>
                    /\ reqs[r].code = 500
                    /\ reqs[r].stores = 2

\* two edit rounds of one conversation overlap with the same edit index;
\* both have stored variants and one has answered
C27_Witness ==
    \E r1, r2 \in DOMAIN reqs :
       /\ r1 # r2
       /\ reqs[r1].op = "edit" /\ reqs[r2].op = "edit"
       /\ reqs[r1].cid = reqs[r2].cid
       /\ reqs[r1].edit_index = reqs[r2].edit_index
       /\ reqs[r1].pc = "done" /\ reqs[r1].code = 200 /\ reqs[r1].paths >= 2
       /\ reqs[r2].pc = "e_out_reserve" /\ Len(reqs[r2].outputs) >= 1
       /\ reqs[r2].outputs[1] < reqs[r1].outputs[Len(reqs[r1].outputs)]

\* the base image of conversation c: the image create_conversation stored
BaseImage(c, id) ==
    /\ id \in 1..Len(images)
    /\ images[id].path = rel_path(c, 0, "og", id)

\* an output variant of an edit round of conversation c
VariantOf(c, id) ==
    /\ id \in 1..Len(images)
    /\ images[id].path.dir = "outputs"
    /\ images[id].path.c = c

\* C28: whenever the current image of a conversation changes, it becomes
\* the base image of that conversation or an output variant of one of its
\* edit rounds
C28_CurrentInLineage ==
    [][\A c \in 1..Len(convs) :
          convs'[c].current # convs[c].current =>
              \/ BaseImage(c, convs'[c].current)
              \/ VariantOf(c, convs'[c].current) ]_vars

\* C30: the current image of every conversation is an image row with a
\* non-empty path whose file is written, in every state
C30_CurrentStored ==
    \A c \in 1..Len(convs) :
        LET id == convs[c].current IN
        /\ id \in 1..Len(images)
        /\ ~Falsy(images[id].path)
        /\ \E f \in files : f.id = id /\ f.path = images[id].path

\* request r is an edit round that has answered with its outputs
EditCompleted(r) ==
    /\ reqs[r].op = "edit"
    /\ reqs[r].pc = "done"
    /\ reqs[r].code = 200

\* C31: an edit round gets as its edit index 1 plus the number of edit
\* messages logged for its conversation when it counts them, and two edit
\* rounds of one conversation that both complete never have the same edit
\* index, overlapping or not
C31_EditIndexUnique ==
    [][/\ \A r \in DOMAIN reqs :
             reqs'[r].edit_index # reqs[r].edit_index =>
                 reqs'[r].edit_index = Cardinality(EditMessages(reqs[r].cid)) + 1
       /\ \A r1, r2 \in DOMAIN reqs :
             (/\ r1 # r2
              /\ EditCompleted(r1)' /\ EditCompleted(r2)'
              /\ reqs'[r1].cid = reqs'[r2].cid)
             => reqs'[r1].edit_index # reqs'[r2].edit_index ]_vars

====
